---- MODULE Spec2Model ----
(***************************************************************************)
(* Presence index of the address service (hexagonal neighbourhood chats). *)
(*                                                                         *)
(* The store is the PostgreSQL database behind get_sync_db: the tables     *)
(* hex_cells and user_hex_locations of alembic revision 001, read and      *)
(* written through one SQLAlchemy session per request (autoflush off,      *)
(* READ COMMITTED).  Every request handler is a process; it advances one   *)
(* database statement at a time, so handlers of different worker processes *)
(* interleave between statements.                                          *)
(***************************************************************************)
EXTENDS Integers, FiniteSets, Sequences, TLC

VARIABLES
    now,                  \* datetime.utcnow(), in ticks
    hex_cells,            \* table hex_cells: h3_index -> committed row
    user_hex_locations,   \* table user_hex_locations: the committed rows
    pc,                   \* per request handler: the statement it is at
    op,                   \* per request handler: the request it serves
    local,                \* per request handler: its local variables and session
    result,               \* per request handler: what the last request returned
    nops,                 \* number of requests started so far
    served,               \* observer: <<client, h3_index>> of completed joins
    sweeps,               \* observer: the sweeps that ended since the last join began
    eval,                 \* the last call of a function that reads no store: arguments and value
    redis,                \* the Redis keys rate_limit:<client ip>: value and expiry
    req,                  \* per HTTP request: where RateLimitMiddleware.dispatch is at
    forwarded             \* observer: per client, the requests passed on since its key last expired

\* The state of the presence index and of the calls, and that of the middleware.
presence == <<now, hex_cells, user_hex_locations, pc, op, local, result,
              nops, served, sweeps, eval>>

mw == <<redis, req, forwarded>>

vars == <<now, hex_cells, user_hex_locations, pc, op, local, result,
          nops, served, sweeps, eval, redis, req, forwarded>>

---------------------------------------------------------------------------
(* Bounds of the model *)

MaxTime == 1
MaxOps == 3

Workers == <<"w1", "w2">>
Procs == {Workers[i] : i \in DOMAIN Workers}
Clients == {"u1", "u2"}
Points == {0, 1}
RoutePoints == {0}
RouteResolutions == {8}
RequestPoints == {0, 4}
NeighborPoints == {0, 1, 2}
Rings == {1, 2}
Degrees == (0 - 1)..1
Centers == Degrees \X Degrees
Resolutions == {5, 6, 8, 10, 11, 16}
MaxLocations == 3
MaxRequests == 3
HeatmapResolutions == {7, 16}
Ks == 0..(MaxLocations + 1)
Projected == {0, 1, 2}
EpsMeters == {0, 1, 2}
MinSamples == 1..4
Timeouts == {0, 1}
ClientIps == {"ip1", "ip2"}
Requests == 1..MaxRequests

---------------------------------------------------------------------------
(* Program constants *)

DEFAULT_RESOLUTION == 8

test_user_id == "test-user-123"

UserIds == Clients \cup {test_user_id}

\* The columns SQLAlchemy maps for UserHexLocation.
UserHexLocationColumns == {"id", "user_id", "h3_index", "joined_at", "last_active"}

\* The attribute join_hex_chat assigns on a rejoin, and the one
\* cleanup_inactive_users filters and deletes by.
RefreshAttr == "last_seen"

SweepAttrLastActive == "last_active"

SweepAttr == "last_seen"

NoCell == <<0, 0>>

\* RateLimitMiddleware(app): self.requests_per_minute, scaled down.
requests_per_minute == 2

\* The value of a local variable or field that holds nothing (Python None).
None == 0 - 1

---------------------------------------------------------------------------
(* The grid primitive and the pure helpers *)

\* A point is its position on the west-east line, in grid units; the
\* positions 0..3 are the coordinates of the valid range.
ValidCoordinate(pt) == pt \in 0..3

\* h3.latlng_to_cell accepts the resolutions 0..15 and raises for any other.
H3Resolution(r) == r \in 0..15

\* h3.latlng_to_cell: the cell of resolution r that holds the point.  Only a
\* coordinate that is not finite is refused; one outside the valid range
\* wraps around.
get_hex_for_location(pt, r) == <<r, pt % 4>>

Max(a, b) == IF a >= b THEN a ELSE b

Abs(x) == IF x < 0 THEN 0 - x ELSE x

\* h3.cell_to_latlng: the centre <<lat, lng>> of a cell, in grid units.  The
\* cells of one resolution that the model uses lie on one west-east line.
cell_to_latlng(c) == <<0, c[2]>>

\* h3.grid_disk: the cells within k grid steps of c, c included.
grid_disk(c, k) == {<<c[1], q>> : q \in (c[2] - k)..(c[2] + k)}

\* h3.great_circle_distance(a, b, unit='km') between two centres of the
\* line, in hundredths of a kilometre.
great_circle_distance(a, b) == 92 * Abs(a[2] - b[2])

\* round(distance, 1): hundredths of a kilometre to tenths.
Round1(d) == (d + 5) \div 10

\* _get_direction(from_point, to_point)
get_direction_ties_north(from_point, to_point) ==
    LET dlng == to_point[2] - from_point[2]
        dlat == to_point[1] - from_point[1]
    IN  IF Abs(dlat) >= Abs(dlng)
        THEN (IF dlat > 0 THEN "north" ELSE "south")
        ELSE (IF dlng > 0 THEN "east" ELSE "west")

get_direction(from_point, to_point) ==
    LET dlng == to_point[2] - from_point[2]
        dlat == to_point[1] - from_point[1]
    IN  IF Abs(dlat) > Abs(dlng)
        THEN (IF dlat > 0 THEN "north" ELSE "south")
        ELSE (IF dlng > 0 THEN "east" ELSE "west")

\* Setting an attribute on a mapped instance: a mapped column is written with
\* the next flush, any other name is a plain Python attribute of the instance
\* and never reaches the row.
SetAttr(row, attr, val) ==
    IF attr \in UserHexLocationColumns THEN [row EXCEPT ![attr] = val] ELSE row

\* The stored last-seen timestamp of an Occupancy: the one timestamp column of
\* user_hex_locations besides joined_at.
LastSeen(r) == r.last_active

\* db.query(UserHexLocation).filter_by(user_id=..., h3_index=...)
LocationsOf(u, c) == {r \in user_hex_locations : r.user_id = u /\ r.h3_index = c}

\* db.query(UserHexLocation).filter_by(h3_index=...).count()
CountEverywhere(c) == Cardinality(user_hex_locations)

CountIn(c) == Cardinality({r \in user_hex_locations : r.h3_index = c})

\* hex_cell.active_users = <count> + 1
NewActiveUsersMinusOne(count) == count - 1

NewActiveUsers(count) == count + 1

\* UniqueConstraint('user_id', 'h3_index') as checked by the INSERT.
UniqueUserCellMissing(u, c) == TRUE

UniqueUserCell(u, c) == LocationsOf(u, c) = {}

NoLocal == [h3 |-> NoCell, found |-> FALSE, pending |-> FALSE,
            new_active |-> None, last_seen |-> None, cutoff |-> None]

NoOp == [kind |-> "none", via |-> "-", client |-> "-", user_id |-> "-",
         pt |-> 0, resolution |-> 0, timeout |-> 0, rings |-> 0]

NoResult == [status |-> "-", h3 |-> NoCell, active_users |-> None,
             neighbors |-> << >>]

NoEval == [fn |-> "-", args |-> << >>, ret |-> None, raised |-> "-"]

\* A Redis key that does not exist, and a request that has not arrived.
NoKey == [count |-> None, expires |-> FALSE]

NoRequest == [pc |-> "new", client |-> "-", status |-> "-", current |-> None,
              calls |-> 0]

Idle(p) == pc[p] = "idle"

Quiescent == \A p \in Procs : Idle(p)

\* A request goes to the first worker that is free.
Dispatch(p) ==
    \E i \in DOMAIN Workers :
        /\ Workers[i] = p
        /\ Idle(p)
        /\ \A j \in 1..(i - 1) : ~Idle(Workers[j])

\* The observer of sweeps keeps the last two.
Noted(seq, t) == IF Len(seq) < 2 THEN Append(seq, t) ELSE <<seq[2], t>>

---------------------------------------------------------------------------
Init ==
    /\ now = 0
    /\ hex_cells = << >>
    /\ user_hex_locations = {}
    /\ pc = [p \in Procs |-> "idle"]
    /\ op = [p \in Procs |-> NoOp]
    /\ local = [p \in Procs |-> NoLocal]
    /\ result = [p \in Procs |-> NoResult]
    /\ nops = 0
    /\ served = {}
    /\ sweeps = << >>
    /\ eval = NoEval
    /\ redis = [ip \in ClientIps |-> NoKey]
    /\ req = [r \in Requests |-> NoRequest]
    /\ forwarded = [ip \in ClientIps |-> 0]

\* The clock advances.
Tick ==
    /\ now < MaxTime
    /\ now' = now + 1
    /\ UNCHANGED <<hex_cells, user_hex_locations, pc, op, local, result,
                   nops, served, sweeps, eval, mw>>

\* The handler returns (or raises): the session is closed, the locals are gone.
Returns(p, res) ==
    /\ pc' = [pc EXCEPT ![p] = "idle"]
    /\ op' = [op EXCEPT ![p] = NoOp]
    /\ local' = [local EXCEPT ![p] = NoLocal]
    /\ result' = [result EXCEPT ![p] = res]

Raises(p, error) == Returns(p, [NoResult EXCEPT !.status = error])

---------------------------------------------------------------------------
(* Requests *)

\* A caller of the service layer invokes join_hex_chat(user_id, lat, lng).
StartJoinService(p, u, pt) ==
    /\ Dispatch(p)
    /\ nops < MaxOps
    /\ nops' = nops + 1
    /\ op' = [op EXCEPT ![p] = [pt |-> pt, user_id |-> u, kind |-> "join",
                                via |-> "service", client |-> u,
                                resolution |-> DEFAULT_RESOLUTION, timeout |-> 0,
                                rings |-> 0]]
    /\ result' = [result EXCEPT ![p] = NoResult]
    /\ pc' = [pc EXCEPT ![p] = "get_or_create"]
    /\ sweeps' = << >>
    /\ UNCHANGED <<mw, eval, now, hex_cells, user_hex_locations, local, served>>

\* POST /api/v1/hex/join by a client: a resolution outside 6..10 is answered
\* with 400; the user id handed to the service is the fixed test user id,
\* whoever the client is.
join_neighborhood_chat(p, client, pt, resolution) ==
    /\ Dispatch(p)
    /\ nops < MaxOps
    /\ nops' = nops + 1
    /\ IF resolution < 6 \/ resolution > 10
       THEN /\ Raises(p, "400")
            /\ UNCHANGED sweeps
       ELSE /\ op' = [op EXCEPT ![p] =
                        [pt |-> pt, user_id |-> test_user_id, kind |-> "join",
                         via |-> "route", client |-> client,
                         resolution |-> resolution, timeout |-> 0,
                         rings |-> 0]]
            /\ result' = [result EXCEPT ![p] = NoResult]
            /\ pc' = [pc EXCEPT ![p] = "get_or_create"]
            /\ sweeps' = << >>
            /\ UNCHANGED local
    /\ UNCHANGED <<mw, eval, now, hex_cells, user_hex_locations, served>>

\* cleanup_inactive_users(timeout_minutes) is invoked; it computes
\* cutoff = utcnow() - timeout.
StartCleanup(p, timeout) ==
    /\ Dispatch(p)
    /\ nops < MaxOps
    /\ nops' = nops + 1
    /\ op' = [op EXCEPT ![p] = [NoOp EXCEPT !.kind = "cleanup", !.timeout = timeout]]
    /\ local' = [local EXCEPT ![p] = [NoLocal EXCEPT !.cutoff = now - timeout]]
    /\ result' = [result EXCEPT ![p] = NoResult]
    /\ pc' = [pc EXCEPT ![p] = "sweep"]
    /\ UNCHANGED <<mw, eval, now, hex_cells, user_hex_locations, served, sweeps>>

---------------------------------------------------------------------------
(* get_or_create_hex_cell *)

\* _generate_hex_name: no landmark row is ever written, so the name is the
\* one of the resolution band.
generate_hex_name(resolution) ==
    IF resolution <= 7 THEN "District Chat"
    ELSE IF resolution = 8 THEN "Neighborhood Chat"
    ELSE "Local Chat"

\* The lookup of the cell: found, or the branch that creates it.
GetOrCreateQuery(p) ==
    /\ pc[p] = "get_or_create"
    /\ LET h3_index == get_hex_for_location(op[p].pt, op[p].resolution) IN
        /\ local' = [local EXCEPT ![p].h3 = h3_index]
        /\ pc' = [pc EXCEPT ![p] =
                    IF h3_index \in DOMAIN hex_cells THEN "lookup_user" ELSE "create_cell"]
    /\ UNCHANGED <<mw, eval, now, hex_cells, user_hex_locations, op, result, nops,
                   served, sweeps>>

\* The table hex_cells after the INSERT of a new row.
WithOnlyHexCell(cells, h3_index, row) == (h3_index :> row)

WithHexCell(cells, h3_index, row) == cells @@ (h3_index :> row)

\* db.add(hex_cell); db.commit(): the INSERT fails on the primary key when
\* another session has created the cell since the lookup.
CreateHexCell(p) ==
    /\ pc[p] = "create_cell"
    /\ LET h3_index == local[p].h3 IN
        IF h3_index \in DOMAIN hex_cells
        THEN /\ Raises(p, "IntegrityError")
             /\ UNCHANGED hex_cells
        ELSE /\ hex_cells' = WithHexCell(hex_cells, h3_index,
                                 [resolution |-> op[p].resolution,
                                  active_users |-> 0,
                                  display_name |-> generate_hex_name(op[p].resolution)])
             /\ pc' = [pc EXCEPT ![p] = "lookup_user"]
             /\ UNCHANGED <<op, local, result>>
    /\ UNCHANGED <<mw, eval, now, user_hex_locations, nops, served, sweeps>>

---------------------------------------------------------------------------
(* join_hex_chat *)

\* The lookup of the caller's UserHexLocation; on a hit the instance gets
\* last_seen = utcnow().
LookupUserLocation(p) ==
    /\ pc[p] = "lookup_user"
    /\ IF LocationsOf(op[p].user_id, local[p].h3) # {}
       THEN /\ local' = [local EXCEPT ![p].found = TRUE, ![p].last_seen = now]
            /\ pc' = [pc EXCEPT ![p] = "commit"]
       ELSE /\ local' = [local EXCEPT ![p].found = FALSE, ![p].pending = TRUE]
            /\ pc' = [pc EXCEPT ![p] = "count"]
    /\ UNCHANGED <<mw, eval, now, hex_cells, user_hex_locations, op, result, nops,
                   served, sweeps>>

\* The count query of the new-user branch (the pending instance is not
\* flushed: autoflush is off).
CountOccupants(p) ==
    /\ pc[p] = "count"
    /\ local' = [local EXCEPT ![p].new_active = NewActiveUsers(CountIn(local[p].h3))]
    /\ pc' = [pc EXCEPT ![p] = "commit"]
    /\ UNCHANGED <<mw, eval, now, hex_cells, user_hex_locations, op, result, nops,
                   served, sweeps>>

\* The row an INSERT adds.  The table is a bag of rows: nth tells rows of equal
\* columns apart (the surrogate key id is written by the store and never read).
Inserted(cols) ==
    [last_active |-> cols.last_active, user_id |-> cols.user_id,
     h3_index |-> cols.h3_index, joined_at |-> cols.joined_at,
     nth |-> 1 + Cardinality({r \in user_hex_locations :
                                /\ r.user_id = cols.user_id
                                /\ r.h3_index = cols.h3_index
                                /\ r.joined_at = cols.joined_at
                                /\ r.last_active = cols.last_active})]

\* The committed rows after the flush of a rejoin.
RefreshedMovingIn(u, c, t) ==
    {IF r.h3_index = c THEN SetAttr(r, RefreshAttr, t) ELSE r :
        r \in {x \in user_hex_locations : x.user_id # u \/ x.h3_index = c}}

Refreshed(u, c, t) ==
    {IF r.user_id = u /\ r.h3_index = c THEN SetAttr(r, RefreshAttr, t) ELSE r :
        r \in user_hex_locations}

\* db.commit() of join_hex_chat: the flush writes the pending INSERT and the
\* UPDATE of active_users, or nothing but the refreshed instance.
JoinCommit(p) ==
    /\ pc[p] = "commit"
    /\ LET u == op[p].user_id
           c == local[p].h3
       IN
        IF local[p].pending
        THEN IF UniqueUserCell(u, c)
                THEN /\ user_hex_locations' = user_hex_locations \cup
                            {Inserted([last_active |-> now, user_id |-> u,
                                       h3_index |-> c, joined_at |-> now])}
                     /\ hex_cells' = [hex_cells EXCEPT ![c].active_users = local[p].new_active]
                     /\ pc' = [pc EXCEPT ![p] = "respond"]
                     /\ UNCHANGED <<op, local, result>>
                ELSE /\ Raises(p, "UniqueViolation")
                     /\ UNCHANGED <<user_hex_locations, hex_cells>>
        ELSE /\ user_hex_locations' = Refreshed(u, c, local[p].last_seen)
             /\ pc' = [pc EXCEPT ![p] = "respond"]
             /\ UNCHANGED <<hex_cells, op, local, result>>
    /\ UNCHANGED <<mw, eval, now, nops, served, sweeps>>

\* The rows of the query in get_active_neighbors: the cells of the disk
\* other than c itself that have active users.
ActiveHexesWithSelf(c, rings) ==
    {n \in DOMAIN hex_cells :
        n \in grid_disk(c, rings) /\ hex_cells[n].active_users > 0}

ActiveHexes(c, rings) ==
    {n \in DOMAIN hex_cells :
        n \in (grid_disk(c, rings) \ {c}) /\ hex_cells[n].active_users > 0}

\* The orders in which a query without ORDER BY may return a set of rows.
Orders(S) ==
    {f \in [1..Cardinality(S) -> S] : \A i, j \in DOMAIN f : f[i] = f[j] => i = j}

NeighborhoodInfo(c, n) ==
    [h3_index |-> n,
     active_users |-> hex_cells[n].active_users,
     distance_km |-> Round1(great_circle_distance(cell_to_latlng(c), cell_to_latlng(n))),
     direction |-> get_direction(cell_to_latlng(c), cell_to_latlng(n))]

\* sorted(neighbor_info, key=lambda x: x.distance_km): Python's sort is stable,
\* elements of equal key keep the order they came in.
InsertByDistance(sorted, x) ==
    LET k == Cardinality({i \in DOMAIN sorted : sorted[i].distance_km <= x.distance_km})
    IN  SubSeq(sorted, 1, k) \o <<x>> \o SubSeq(sorted, k + 1, Len(sorted))

RECURSIVE SortedByDistance(_)
SortedByDistance(seq) ==
    IF seq = << >> THEN << >>
    ELSE InsertByDistance(SortedByDistance(SubSeq(seq, 1, Len(seq) - 1)), seq[Len(seq)])

\* get_active_neighbors(h3_index, rings), given the rows as the store
\* returned them.
get_active_neighbors(c, active_hexes) ==
    SortedByDistance([i \in DOMAIN active_hexes |-> NeighborhoodInfo(c, active_hexes[i])])

\* _build_join_response: the instance is expired by the commit, so
\* active_users is read back from the store; the neighbors are those of
\* get_active_neighbors(h3_index) with its default of one ring.
BuildJoinResponse(p) ==
    /\ pc[p] = "respond"
    /\ LET c == local[p].h3 IN
        /\ \E active_hexes \in Orders(ActiveHexes(c, 1)) :
                Returns(p, [h3 |-> c, status |-> "ok",
                            active_users |-> hex_cells[c].active_users,
                            neighbors |-> get_active_neighbors(c, active_hexes)])
        /\ served' = served \cup {<<op[p].client, c>>}
    /\ UNCHANGED <<mw, eval, now, hex_cells, user_hex_locations, nops, sweeps>>

---------------------------------------------------------------------------
(* get_active_neighbors *)

\* GET /api/v1/hex/neighbors/{h3_index}?rings=...
StartActiveNeighbors(p, c, rings) ==
    /\ Dispatch(p)
    /\ nops < MaxOps
    /\ nops' = nops + 1
    /\ op' = [op EXCEPT ![p] = [NoOp EXCEPT !.kind = "neighbors", !.via = "route",
                                            !.resolution = c[1], !.pt = c[2],
                                            !.rings = rings]]
    /\ result' = [result EXCEPT ![p] = NoResult]
    /\ pc' = [pc EXCEPT ![p] = "neighbors"]
    /\ UNCHANGED <<mw, eval, now, hex_cells, user_hex_locations, local, served, sweeps>>

\* The one query of get_active_neighbors; the store returns the rows in an
\* order of its own (the query has no ORDER BY).
QueryActiveNeighbors(p) ==
    /\ pc[p] = "neighbors"
    /\ LET c == <<op[p].resolution, op[p].pt>> IN
        \E active_hexes \in Orders(ActiveHexes(c, op[p].rings)) :
            Returns(p, [h3 |-> c, status |-> "ok", active_users |-> None,
                        neighbors |-> get_active_neighbors(c, active_hexes)])
    /\ UNCHANGED <<mw, eval, now, hex_cells, user_hex_locations, nops, served, sweeps>>

---------------------------------------------------------------------------
(* cleanup_inactive_users *)

\* The rows the filter UserHexLocation.<attr> < cutoff selects.
Inactive(cutoff) == {r \in user_hex_locations : r[SweepAttr] < cutoff}

\* hex_updates: the number of selected rows per cell.
hex_updates(inactive) ==
    [c \in {r.h3_index : r \in inactive} |->
        Cardinality({r \in inactive : r.h3_index = c})]

\* The select, the delete, the per-cell decrement and the commit, in one
\* transaction.  Building the filter reads the class attribute: it raises
\* AttributeError when the mapped class has no such attribute, before any
\* statement is sent.
CleanupSweep(p) ==
    /\ pc[p] = "sweep"
    /\ IF SweepAttr \notin UserHexLocationColumns
       THEN /\ Raises(p, "AttributeError")
            /\ UNCHANGED <<hex_cells, user_hex_locations>>
       ELSE LET inactive == Inactive(local[p].cutoff)
                updates == hex_updates(inactive)
            IN
            /\ user_hex_locations' = user_hex_locations \ inactive
            /\ hex_cells' = [c \in DOMAIN hex_cells |->
                    IF c \in DOMAIN updates
                    THEN [hex_cells[c] EXCEPT
                            !.active_users = Max(0, hex_cells[c].active_users - updates[c])]
                    ELSE hex_cells[c]]
            /\ Returns(p, [NoResult EXCEPT !.status = "ok"])
    /\ sweeps' = Noted(sweeps, [cutoff |-> local[p].cutoff, timeout |-> op[p].timeout])
    /\ UNCHANGED <<mw, eval, now, nops, served>>

---------------------------------------------------------------------------
(* Failures of the store *)

\* The rows of user_hex_locations as the open transaction of handler p has
\* written them when its next statement is the commit or the sweep.
Flushed(p) ==
    IF pc[p] = "commit" /\ local[p].pending
    THEN user_hex_locations \cup
            {Inserted([last_active |-> now, user_id |-> op[p].user_id,
                       h3_index |-> local[p].h3, joined_at |-> now])}
    ELSE IF pc[p] = "sweep" /\ SweepAttr \in UserHexLocationColumns
         THEN user_hex_locations \ Inactive(local[p].cutoff)
         ELSE user_hex_locations

\* The table after a transaction ended without its commit: get_sync_db closes
\* the session, which rolls the transaction back.
RollbackKeepsFlushed(committed, flushed) == flushed

Rollback(committed, flushed) == committed

\* The statement handler p is at fails in the store (connection lost,
\* deadlock, timeout): the exception leaves the service method and the route,
\* neither of which catches it or tries again.
StoreFailure(p) ==
    /\ ~Idle(p)
    /\ Raises(p, "OperationalError")
    /\ user_hex_locations' = Rollback(user_hex_locations, Flushed(p))
    /\ UNCHANGED <<mw, eval, now, hex_cells, nops, served, sweeps>>

---------------------------------------------------------------------------
(* SpatialAnalysisService.find_clusters *)

\* if len(locations) < min_samples: return []
TooFewNever(n, min_samples) == FALSE

TooFew(n, min_samples) == n < min_samples

\* The eps-neighborhood of sample i (itself included), on projected
\* coordinates of one dimension.
EpsNeighbors(X, i, eps) == {j \in DOMAIN X : Abs(X[i] - X[j]) <= eps}

\* A core sample: at least min_samples samples, itself included, within eps.
IsCoreWhateverMinSamples(X, i, eps, min_samples) ==
    Cardinality(EpsNeighbors(X, i, eps)) >= 1

IsCore(X, i, eps, min_samples) == Cardinality(EpsNeighbors(X, i, eps)) >= min_samples

\* The samples density-reachable from those of S.
RECURSIVE Reachable(_, _, _, _)
Reachable(X, eps, min_samples, S) ==
    LET grown == S \cup UNION {EpsNeighbors(X, i, eps) :
                                i \in {k \in S : IsCore(X, k, eps, min_samples)}}
    IN  IF grown = S THEN S ELSE Reachable(X, eps, min_samples, grown)

\* DBSCAN(eps, min_samples).fit(coords).labels_: the samples are visited in
\* order, an unlabelled core sample opens the next cluster, which takes the
\* samples reachable from it that no earlier cluster has; noise keeps -1.
RECURSIVE Labels(_, _, _, _, _, _)
Labels(X, eps, min_samples, i, labels, k) ==
    IF i > Len(X) THEN labels
    ELSE IF labels[i] = None /\ IsCore(X, i, eps, min_samples)
         THEN LET members == {j \in Reachable(X, eps, min_samples, {i}) : labels[j] = None}
              IN  Labels(X, eps, min_samples, i + 1,
                         [j \in DOMAIN X |-> IF j \in members THEN k ELSE labels[j]], k + 1)
         ELSE Labels(X, eps, min_samples, i + 1, labels, k)

DBSCAN(X, eps, min_samples) ==
    Labels(X, eps, min_samples, 1, [j \in DOMAIN X |-> None], 0)

\* The clusters built from the labels, noise skipped.
RECURSIVE ClustersFrom(_, _)
ClustersFrom(labels, k) ==
    LET members == {j \in DOMAIN labels : labels[j] = k} IN
    IF members = {} THEN << >>
    ELSE <<[members |-> members, cluster_id |-> k,
            location_count |-> Cardinality(members)]>> \o ClustersFrom(labels, k + 1)

\* find_clusters(locations, eps_meters, min_samples): the value returned, or
\* the exception raised (DBSCAN refuses an empty array and an eps that is not
\* positive with ValueError).
find_clusters(locations, eps_meters, min_samples) ==
    IF TooFew(Len(locations), min_samples)
    THEN [ret |-> << >>, raised |-> "-"]
    ELSE IF Len(locations) = 0 \/ eps_meters <= 0
         THEN [ret |-> << >>, raised |-> "ValueError"]
         ELSE [ret |-> ClustersFrom(DBSCAN(locations, eps_meters, min_samples), 0),
               raised |-> "-"]

---------------------------------------------------------------------------
(* SpatialAnalysisService.create_h3_heatmap *)

\* count / max_count, a quotient of two positive integers: kept as the pair,
\* which is 1.0 exactly when the two are equal.
Quotient(count, max_count) == <<count, max_count>>

\* max(hex_counts.values()) if hex_counts else 1
min_count(hex_counts) ==
    IF DOMAIN hex_counts = {} THEN 1
    ELSE CHOOSE n \in {hex_counts[c] : c \in DOMAIN hex_counts} :
            \A c \in DOMAIN hex_counts : hex_counts[c] >= n

max_count(hex_counts) ==
    IF DOMAIN hex_counts = {} THEN 1
    ELSE CHOOSE n \in {hex_counts[c] : c \in DOMAIN hex_counts} :
            \A c \in DOMAIN hex_counts : hex_counts[c] <= n

\* create_h3_heatmap(locations, resolution): every location is put into its
\* cell by calculate_h3_indices, which is h3.latlng_to_cell; the value
\* returned, or the exception of h3 for a resolution it does not have.
create_h3_heatmap(locations, resolution) ==
    IF locations # << >> /\ ~H3Resolution(resolution)
    THEN [ret |-> << >>, raised |-> "H3ResDomainError"]
    ELSE LET h3_index(i) == get_hex_for_location(locations[i], resolution)
             hex_counts == [c \in {h3_index(i) : i \in DOMAIN locations} |->
                                Cardinality({i \in DOMAIN locations : h3_index(i) = c})]
         IN  [ret |-> [c \in DOMAIN hex_counts |->
                            Quotient(hex_counts[c], max_count(hex_counts))],
              raised |-> "-"]

---------------------------------------------------------------------------
(* SpatialAnalysisService.find_nearest_neighbors *)

\* The rows of the frame are pairs <<position in locations, distance>>; the
\* position stands for the id of the location, a primary key.
\* One step of the stable sort by distance inside nsmallest (argsort of kind
\* mergesort): the row goes behind the rows of equal distance.
InsertBeforeEqual(sorted, row) ==
    LET n == Cardinality({i \in DOMAIN sorted : sorted[i][2] < row[2]})
    IN  SubSeq(sorted, 1, n) \o <<row>> \o SubSeq(sorted, n + 1, Len(sorted))

InsertBehindEqual(sorted, row) ==
    LET n == Cardinality({i \in DOMAIN sorted : sorted[i][2] <= row[2]})
    IN  SubSeq(sorted, 1, n) \o <<row>> \o SubSeq(sorted, n + 1, Len(sorted))

RECURSIVE SortedRows(_)
SortedRows(rows) ==
    IF rows = << >> THEN << >>
    ELSE InsertBehindEqual(SortedRows(SubSeq(rows, 1, Len(rows) - 1)), rows[Len(rows)])

\* DataFrame.nsmallest(n, 'distance') with keep='first': the first n rows in
\* ascending order of distance, none for n <= 0, all of them for n beyond
\* their number.
nsmallest(n, rows) ==
    IF n <= 0 THEN << >>
    ELSE SubSeq(SortedRows(rows), 1, IF n < Len(rows) THEN n ELSE Len(rows))

\* geometry.distance(target_projected), on projected coordinates of one
\* dimension.
distance(a, b) == Abs(a - b)

\* find_nearest_neighbors(target, locations, k)
find_nearest_neighbors(target, locations, k) ==
    IF locations = << >> THEN << >>
    ELSE nsmallest(k, [i \in DOMAIN locations |-> <<i, distance(locations[i], target)>>])

---------------------------------------------------------------------------
(* SpatialAnalysisService.find_locations_in_polygon *)

\* A point is <<x, y>>, a polygon a rectangle <<lower left, upper right>>.
\* The interior of the polygon, and its boundary (edges and vertices).
Interior(pt, polygon) ==
    /\ polygon[1][1] < pt[1] /\ pt[1] < polygon[2][1]
    /\ polygon[1][2] < pt[2] /\ pt[2] < polygon[2][2]

Boundary(pt, polygon) ==
    /\ polygon[1][1] <= pt[1] /\ pt[1] <= polygon[2][1]
    /\ polygon[1][2] <= pt[2] /\ pt[2] <= polygon[2][2]
    /\ ~Interior(pt, polygon)

\* The predicate 'within' of the spatial join: a point is within a polygon
\* when it lies in the polygon's interior; a point of the boundary is not.
within(pt, polygon) == Interior(pt, polygon)

\* find_locations_in_polygon(locations, polygon): the locations whose id is
\* among the rows the join matched, in the order of the input (a location is
\* named by its position, ids being primary keys).
find_locations_in_polygon(locations, polygon) ==
    LET matching(i) == within(locations[i], polygon)
    IN  SelectSeq([i \in DOMAIN locations |-> i], matching)

---------------------------------------------------------------------------
(* SpatialAnalysisService.calculate_spatial_statistics *)

\* The projected points are those of a grid with a step of 400 metres.
Cross(o, a, b) == (a[1] - o[1]) * (b[2] - o[2]) - (a[2] - o[2]) * (b[1] - o[1])

\* p lies on the segment from a to b, strictly between the two.
Between(p, a, b) ==
    /\ Cross(a, b, p) = 0
    /\ (p[1] - a[1]) * (b[1] - p[1]) + (p[2] - a[2]) * (b[2] - p[2]) > 0

\* The directed edges of the convex hull of the points P, counter-clockwise,
\* cut at every point of P that lies on them.
HullEdges(P) ==
    {e \in P \X P :
        /\ e[1] # e[2]
        /\ \A p \in P : Cross(e[1], e[2], p) >= 0
        /\ \A p \in P : ~Between(p, e[1], e[2])}

RECURSIVE Shoelace(_)
Shoelace(E) ==
    IF E = {} THEN 0
    ELSE LET e == CHOOSE x \in E : TRUE
         IN  e[1][1] * e[2][2] - e[1][2] * e[2][1] + Shoelace(E \ {e})

\* MultiPoint(...).convex_hull.area / 1_000_000, in hundredths of a square
\* kilometre: half the shoelace sum, in grid squares of 0.16 square kilometres.
area_sqkm(locations) ==
    8 * Shoelace(HullEdges({locations[i] : i \in DOMAIN locations}))

\* The square root, to the hundredth below.
sqrt(n) == CHOOSE r \in 0..300 : r * r <= 10000 * n /\ 10000 * n < (r + 1) * (r + 1)

\* others.geometry.distance(point.geometry).min(), in metres.
nearest_dist(locations, i) ==
    LET squares == {(locations[i][1] - locations[j][1]) * (locations[i][1] - locations[j][1])
                    + (locations[i][2] - locations[j][2]) * (locations[i][2] - locations[j][2]) :
                        j \in DOMAIN locations \ {i}}
    IN  4 * sqrt(CHOOSE m \in squares : \A n \in squares : m <= n)

RECURSIVE SumTo(_, _)
SumTo(f, n) == IF n = 0 THEN 0 ELSE f[n] + SumTo(f, n - 1)

\* np.mean(distances) if distances else 0, in whole metres.
mean_nn_distance(locations) ==
    IF Len(locations) <= 1 THEN 0
    ELSE SumTo([i \in DOMAIN locations |-> nearest_dist(locations, i)], Len(locations))
            \div Len(locations)

\* 'clustered' if mean_nn_distance < 500 else 'dispersed'
spatial_distribution(mean) == IF mean < 500 THEN "clustered" ELSE "dispersed"

\* calculate_spatial_statistics(locations): the dict returned.  The density
\* is in locations per 100 square kilometres.
calculate_spatial_statistics(locations) ==
    IF locations = << >>
    THEN [total_locations |-> 0, coverage_area_sqkm |-> 0, density_per_sqkm |-> 0,
          mean_nearest_neighbor_distance |-> 0]
    ELSE [spatial_distribution |-> spatial_distribution(mean_nn_distance(locations)),
          total_locations |-> Len(locations),
          coverage_area_sqkm |-> area_sqkm(locations),
          density_per_sqkm |->
              IF area_sqkm(locations) > 0
              THEN (10000 * Len(locations)) \div area_sqkm(locations) ELSE 0,
          mean_nearest_neighbor_distance |-> mean_nn_distance(locations)]

---------------------------------------------------------------------------
(* RateLimitMiddleware.dispatch *)

\* The coroutine of one request runs up to its next await; the coroutines of
\* other requests, and the expiry of keys in Redis, come in between.

\* A request of the client arrives; dispatch is entered.  The requests are
\* numbered in the order of their arrival.
Arrive(r, client_ip) ==
    /\ req[r].pc = "new"
    /\ \A q \in 1..(r - 1) : req[q].pc # "new"
    /\ req' = [req EXCEPT ![r].pc = "get", ![r].client = client_ip]
    /\ UNCHANGED <<presence, redis, forwarded>>

\* current = await self.redis.get(key), and the branch on it: no key, the
\* limit reached (answered with 429), or below the limit.
RedisGet(r) ==
    /\ req[r].pc = "get"
    /\ LET current == redis[req[r].client].count IN
        req' = [req EXCEPT
                  ![r].current = current,
                  ![r].pc = IF current = None THEN "setex"
                            ELSE IF current >= requests_per_minute THEN "done"
                            ELSE "incr",
                  ![r].status = IF current # None /\ current >= requests_per_minute
                                THEN "429" ELSE "-"]
    /\ UNCHANGED <<presence, redis, forwarded>>

\* await self.redis.setex(key, 60, 1): the key is set to 1 and expires in 60
\* seconds, whatever it held.
RedisSetex(r) ==
    /\ req[r].pc = "setex"
    /\ redis' = [redis EXCEPT ![req[r].client] = [count |-> 1, expires |-> TRUE]]
    /\ req' = [req EXCEPT ![r].pc = "call_next"]
    /\ UNCHANGED <<presence, forwarded>>

\* INCR of a key: a key that does not exist is created with the value 1 and
\* without an expiry; an existing key keeps the expiry it has.
Incr(key) ==
    IF key.count = None THEN [count |-> 1, expires |-> FALSE]
    ELSE [key EXCEPT !.count = key.count + 1]

\* await self.redis.incr(key)
RedisIncr(r) ==
    /\ req[r].pc = "incr"
    /\ redis' = [redis EXCEPT ![req[r].client] = Incr(redis[req[r].client])]
    /\ req' = [req EXCEPT ![r].pc = "call_next"]
    /\ UNCHANGED <<presence, forwarded>>

\* The request is handed to the downstream handler.
Forwarded(r) ==
    /\ forwarded' = [forwarded EXCEPT ![req[r].client] = forwarded[req[r].client] + 1]
    /\ UNCHANGED <<presence, redis>>

\* response = await call_next(request); return response
CallNext(r) ==
    /\ req[r].pc = "call_next"
    /\ req' = [req EXCEPT ![r].pc = "done", ![r].calls = req[r].calls + 1,
                           ![r].status = "200", ![r].current = None]
    /\ Forwarded(r)

\* call_next(request) raises the exception of the downstream handler: it is
\* raised inside the try block, so the except clause takes it.
CallNextRaises(r) ==
    /\ req[r].pc = "call_next"
    /\ req' = [req EXCEPT ![r].pc = "except", ![r].calls = req[r].calls + 1,
                           ![r].current = None]
    /\ Forwarded(r)

\* A command to Redis raises (connection refused, timeout): the except
\* clause takes it.
RedisRaises(r) ==
    /\ req[r].pc \in {"get", "setex", "incr"}
    /\ req' = [req EXCEPT ![r].pc = "except", ![r].current = None]
    /\ UNCHANGED <<presence, redis, forwarded>>

\* except Exception: return await call_next(request); what this call raises
\* leaves dispatch.
AllowOnException(r) ==
    /\ req[r].pc = "except"
    /\ \E status \in {"200", "500"} :
            req' = [req EXCEPT ![r].pc = "done", ![r].calls = req[r].calls + 1,
                                   ![r].status = status]
    /\ Forwarded(r)

\* The 60 seconds of a key have passed: Redis removes it.  A key without an
\* expiry stays.
Expire(client_ip) ==
    /\ redis[client_ip].count # None
    /\ redis[client_ip].expires
    /\ redis' = [redis EXCEPT ![client_ip] = NoKey]
    /\ forwarded' = [forwarded EXCEPT ![client_ip] = 0]
    /\ UNCHANGED <<presence, req>>

---------------------------------------------------------------------------
(* Calls of the functions that read no store *)

Called(fn, args, ret, raised) ==
    /\ eval' = [fn |-> fn, args |-> args, ret |-> ret, raised |-> raised]
    /\ UNCHANGED <<now, hex_cells, user_hex_locations, pc, op, local, result,
                   nops, served, sweeps, mw>>

CallGetDirection(from_point, to_point) ==
    Called("_get_direction", <<from_point, to_point>>,
           get_direction(from_point, to_point), "-")

CallGetHexForLocation(pt, resolution) ==
    IF H3Resolution(resolution)
    THEN Called("get_hex_for_location", <<pt, resolution>>,
                get_hex_for_location(pt, resolution), "-")
    ELSE Called("get_hex_for_location", <<pt, resolution>>, NoCell, "H3ResDomainError")

CallCreateH3Heatmap(locations, resolution) ==
    LET out == create_h3_heatmap(locations, resolution) IN
    Called("create_h3_heatmap", <<locations, resolution>>, out.ret, out.raised)

CallFindNearestNeighbors(target, locations, k) ==
    Called("find_nearest_neighbors", <<target, locations, k>>,
           find_nearest_neighbors(target, locations, k), "-")

CallFindLocationsInPolygon(locations, polygon) ==
    Called("find_locations_in_polygon", <<locations, polygon>>,
           find_locations_in_polygon(locations, polygon), "-")

CallCalculateSpatialStatistics(locations) ==
    Called("calculate_spatial_statistics", <<locations>>,
           calculate_spatial_statistics(locations), "-")

CallFindClusters(locations, eps_meters, min_samples) ==
    LET out == find_clusters(locations, eps_meters, min_samples) IN
    Called("find_clusters", <<locations, eps_meters, min_samples>>, out.ret, out.raised)

---------------------------------------------------------------------------
(* Specifications *)

StartJoin(p) ==
    \/ \E u \in Clients, pt \in Points : StartJoinService(p, u, pt)
    \/ \E client \in Clients, pt \in RoutePoints, resolution \in RouteResolutions :
            join_neighborhood_chat(p, client, pt, resolution)

Start(p) ==
    \/ StartJoin(p)
    \/ \E timeout \in Timeouts : StartCleanup(p, timeout)

JoinStep(p) ==
    \/ GetOrCreateQuery(p)
    \/ CreateHexCell(p)
    \/ LookupUserLocation(p)
    \/ CountOccupants(p)
    \/ JoinCommit(p)
    \/ BuildJoinResponse(p)

Step(p) ==
    \/ JoinStep(p)
    \/ CleanupSweep(p)

\* Handlers of several worker processes, interleaved between statements.
Next ==
    \/ Tick
    \/ \E p \in Procs : Start(p)
    \/ \E p \in Procs : Step(p)

Spec == Init /\ [][Next]_vars

\* The same with the neighbor queries among the requests.
NextAll ==
    \/ Tick
    \/ \E p \in Procs : Start(p)
    \/ \E p \in Procs : \E pt \in Points, rings \in Rings :
            StartActiveNeighbors(p, <<DEFAULT_RESOLUTION, pt>>, rings)
    \/ \E p \in Procs : Step(p)
    \/ \E p \in Procs : QueryActiveNeighbors(p)

SpecAll == Init /\ [][NextAll]_vars

\* One request at a time: a request starts only when no other is in flight.
NextSerial ==
    \/ Tick
    \/ \E p \in Procs : Quiescent /\ Start(p)
    \/ \E p \in Procs : Step(p)

SpecSerial == Init /\ [][NextSerial]_vars

\* One request at a time, against a store that may fail at any statement.
NextFaulty ==
    \/ Tick
    \/ \E p \in Procs : Quiescent /\ Start(p)
    \/ \E p \in Procs : Step(p)
    \/ \E p \in Procs : StoreFailure(p)

SpecFaulty == Init /\ [][NextFaulty]_vars

\* Sweeps among joins: a sweep is begun only while a join is in progress, so
\* that every sweep runs concurrently with a join.
NextSweepAmongJoins ==
    \/ Tick
    \/ \E p \in Procs : \E u \in Clients, pt \in Points : StartJoinService(p, u, pt)
    \/ \E p \in Procs : ~Quiescent /\ \E timeout \in Timeouts : StartCleanup(p, timeout)
    \/ \E p \in Procs : Step(p)

SpecSweepAmongJoins == Init /\ [][NextSweepAmongJoins]_vars

\* The requests that pass through RateLimitMiddleware, with Redis and the
\* downstream handlers at work.
NextLimiter ==
    \/ \E r \in Requests, client_ip \in ClientIps : Arrive(r, client_ip)
    \/ \E r \in Requests : RedisGet(r)
    \/ \E r \in Requests : RedisSetex(r)
    \/ \E r \in Requests : RedisIncr(r)
    \/ \E r \in Requests : CallNext(r)
    \/ \E client_ip \in ClientIps : Expire(client_ip)

SpecLimiter == Init /\ [][NextLimiter]_vars

\* Requests within the 60 seconds of one key, with commands to Redis and
\* downstream handlers that may raise.
NextLimiterFaulty ==
    \/ \E r \in Requests, client_ip \in ClientIps : Arrive(r, client_ip)
    \/ \E r \in Requests : RedisGet(r)
    \/ \E r \in Requests : RedisSetex(r)
    \/ \E r \in Requests : RedisIncr(r)
    \/ \E r \in Requests : CallNext(r)
    \/ \E r \in Requests : RedisRaises(r)
    \/ \E r \in Requests : CallNextRaises(r)
    \/ \E r \in Requests : AllowOnException(r)

SpecLimiterFaulty == Init /\ [][NextLimiterFaulty]_vars

\* Joins only, one at a time: no sweep runs between them.
NextJoins ==
    \/ Tick
    \/ \E p \in Procs : Quiescent /\ StartJoin(p)
    \/ \E p \in Procs : JoinStep(p)

SpecJoins == Init /\ [][NextJoins]_vars

\* Joins one at a time along a line of three cells, and neighbor queries that
\* may run while a join is in flight.
NextNeighbors ==
    \/ \E p \in Procs : Quiescent /\ \E u \in Clients, pt \in NeighborPoints :
                                        StartJoinService(p, u, pt)
    \/ \E p \in Procs : \E pt \in NeighborPoints, rings \in Rings :
            StartActiveNeighbors(p, <<DEFAULT_RESOLUTION, pt>>, rings)
    \/ \E p \in Procs : JoinStep(p)
    \/ \E p \in Procs : QueryActiveNeighbors(p)

SpecNeighbors == Init /\ [][NextNeighbors]_vars

\* The lists of at most MaxLocations locations.
LocationLists == UNION {[1..n -> Projected] : n \in 0..MaxLocations}

\* Lists of eight locations on a line in which, at eps 1 and min_samples 4,
\* the location at 2 is within eps of a core location of either of two
\* clusters and is no core location itself, and the location at 9 is noise.
SharedBorderLists ==
    {<<0, 0, 1, 2, 3, 4, 4, 9>>, <<9, 4, 4, 3, 2, 1, 0, 0>>,
     <<2, 0, 0, 1, 9, 3, 4, 4>>}

\* Calls of the functions that read no store, with arguments of every kind.
NextCalls ==
    \/ \E from_point \in Centers, to_point \in Centers :
            CallGetDirection(from_point, to_point)
    \/ \E pt \in Points, resolution \in Resolutions :
            CallGetHexForLocation(pt, resolution)
    \/ \E locations \in LocationLists \cup SharedBorderLists,
          eps_meters \in EpsMeters, min_samples \in MinSamples :
            CallFindClusters(locations, eps_meters, min_samples)

SpecCalls == Init /\ [][NextCalls]_vars

\* The lists of at most MaxLocations locations with coordinates of two
\* dimensions.
PlaneLists == UNION {[1..n -> Centers] : n \in 0..MaxLocations}

\* The polygons of the calls: the rectangles with corners in Centers.
Rectangles == {r \in Centers \X Centers : r[1][1] < r[2][1] /\ r[1][2] < r[2][2]}

\* The analytics functions keep no state from one call to the next: a
\* behavior is one call, with arguments of every kind.
NextAnalytics ==
    /\ eval = NoEval
    /\ \/ \E locations \in LocationLists, resolution \in HeatmapResolutions :
                CallCreateH3Heatmap(locations, resolution)
       \/ \E target \in Projected, locations \in LocationLists, k \in Ks :
                CallFindNearestNeighbors(target, locations, k)
       \/ \E locations \in PlaneLists, polygon \in Rectangles :
                CallFindLocationsInPolygon(locations, polygon)
       \/ \E locations \in PlaneLists : CallCalculateSpatialStatistics(locations)

SpecAnalytics == Init /\ [][NextAnalytics]_vars

\* The boundary: requests to POST /api/v1/hex/join with coordinates and
\* resolutions of every kind, one at a time, and calls of
\* get_hex_for_location.
NextBoundary ==
    \/ \E p \in Procs : Quiescent /\ \E client \in Clients, pt \in RequestPoints,
                                          resolution \in Resolutions :
            join_neighborhood_chat(p, client, pt, resolution)
    \/ \E p \in Procs : JoinStep(p)
    \/ \E pt \in RequestPoints, resolution \in Resolutions :
            CallGetHexForLocation(pt, resolution)

SpecBoundary == Init /\ [][NextBoundary]_vars

---------------------------------------------------------------------------
(* Properties *)

\* The step with which handler p leaves the statement at label l.
Leaves(p, l) == pc[p] = l /\ pc'[p] # l

\* C1: every join call of a user into a cell adds at most one to the cell's
\* active_users, and a call that finds the user's Occupancy adds nothing, so
\* that two calls of one user into one cell add at most one in total.
C1_TwoJoinsAddAtMostOne ==
    [][\A p \in Procs :
        Leaves(p, "commit") =>
            LET c == local[p].h3 IN
            /\ hex_cells'[c].active_users <= hex_cells[c].active_users + 1
            /\ local[p].found =>
                    hex_cells'[c].active_users = hex_cells[c].active_users]_vars

\* C2: the store never holds two Occupancy rows of one (user, cell) pair,
\* whatever the interleaving of the joins.
C2_OneOccupancyPerUserCell ==
    \A r1, r2 \in user_hex_locations :
        (r1.user_id = r2.user_id /\ r1.h3_index = r2.h3_index) => r1 = r2

\* Two joins of one (user, cell) pair both reached their commit: the second
\* INSERT was refused, and the pair has its one row.
C2_Witness ==
    \E p \in Procs :
        /\ result[p].status = "UniqueViolation"
        /\ user_hex_locations # {}

\* C3: once the concurrent joins have completed, active_users of every cell is
\* the number of its Occupancy rows.
C3_NoDriftAfterConcurrentJoins ==
    Quiescent =>
        \A c \in DOMAIN hex_cells : hex_cells[c].active_users = CountIn(c)

\* C4: with the joins of n distinct clients at one coordinate, made one after
\* the other, every join returns the cell of the coordinate and an
\* active_users equal to the number of distinct clients that have joined it.
C4_DistinctClientsCounted ==
    [][\A p \in Procs :
        Leaves(p, "respond") =>
            /\ result'[p].h3 = get_hex_for_location(op[p].pt, op[p].resolution)
            /\ result'[p].active_users =
                    Cardinality({cl \in Clients : <<cl, result'[p].h3>> \in served'})]_vars

\* C5: when a sweep ends, no Occupancy with a last-seen before its cutoff is
\* left, and every Occupancy with a last-seen at or after the cutoff still is.
C5_SweepRemovesExactlyTheStale ==
    [][\A p \in Procs :
        Leaves(p, "sweep") =>
            /\ \A r \in user_hex_locations' : LastSeen(r) >= local[p].cutoff
            /\ \A r \in user_hex_locations :
                    LastSeen(r) >= local[p].cutoff => r \in user_hex_locations']_vars

\* C6: a sweep lowers active_users of every cell by the number of the cell's
\* Occupancies it has to remove (those last seen before the cutoff), and so
\* leaves the cells with none of them as they are.
C6_SweepDecrementsByRemoved ==
    [][\A p \in Procs :
        Leaves(p, "sweep") =>
            \A c \in DOMAIN hex_cells :
                hex_cells'[c].active_users =
                    hex_cells[c].active_users
                    - Cardinality({r \in user_hex_locations :
                                     r.h3_index = c /\ LastSeen(r) < local[p].cutoff})]_vars

\* C7: active_users of every cell is a natural number in every state, under
\* every interleaving of cell creation, joins and sweeps.
C7_ActiveUsersNeverNegative ==
    \A c \in DOMAIN hex_cells : hex_cells[c].active_users \in Nat

\* A sweep has run against a cell that has occupants.
C7_Witness ==
    /\ \E p \in Procs : result[p].status = "AttributeError"
    /\ \E c \in DOMAIN hex_cells : hex_cells[c].active_users >= 1

C10_RejoinStoresLastSeen ==
    \A q \in Procs :
        (pc[q] = "respond" /\ local[q].found) =>
            \A r \in LocationsOf(op[q].user_id, local[q].h3) :
                LastSeen(r) = local[q].last_seen

\* C11: the list a neighbor query returns holds neither the queried cell nor a
\* cell without active users, and only cells of the queried cell's resolution
\* within rings grid steps of it.
C11_NeighborsAreActiveOthersInReach ==
    [][\A p \in Procs :
        Leaves(p, "neighbors") =>
            LET c == <<op[p].resolution, op[p].pt>>
                found == result'[p].neighbors
            IN  \A i \in DOMAIN found :
                    LET n == found[i].h3_index IN
                    /\ n # c
                    /\ n \in DOMAIN hex_cells
                    /\ hex_cells[n].active_users > 0
                    /\ found[i].active_users > 0
                    /\ n[1] = c[1]
                    /\ Abs(n[2] - c[2]) <= op[p].rings]_vars

\* A neighbor query has answered with an empty list for a cell that has active
\* users itself and has a cell without active users next to it.
C11_Witness ==
    \E p \in Procs :
        /\ result[p].status = "ok"
        /\ result[p].active_users = None
        /\ result[p].neighbors = << >>
        /\ result[p].h3 \in DOMAIN hex_cells
        /\ hex_cells[result[p].h3].active_users > 0
        /\ \E n \in DOMAIN hex_cells :
                /\ Abs(n[2] - result[p].h3[2]) = 1
                /\ hex_cells[n].active_users = 0

\* C12: the list a neighbor query returns is in ascending order of distance,
\* and neighbors at one distance are in ascending order of cell id.
C12_SortedByDistanceThenCellId ==
    [][\A p \in Procs :
        Leaves(p, "neighbors") =>
            LET found == result'[p].neighbors IN
            \A i, j \in DOMAIN found :
                i < j =>
                    \/ found[i].distance_km < found[j].distance_km
                    \/ /\ found[i].distance_km = found[j].distance_km
                       /\ \/ found[i].h3_index[1] < found[j].h3_index[1]
                          \/ /\ found[i].h3_index[1] = found[j].h3_index[1]
                             /\ found[i].h3_index[2] < found[j].h3_index[2]]_vars

\* C13 as stated: north or south exactly when |dlat| > |dlng| (north iff
\* dlat > 0, south iff dlat < 0), east or west otherwise (east iff dlng > 0,
\* west iff dlng < 0).
C13_DirectionAsStated ==
    eval.fn = "_get_direction" =>
        LET dlat == eval.args[2][1] - eval.args[1][1]
            dlng == eval.args[2][2] - eval.args[1][2]
            dominant == Abs(dlat) > Abs(dlng)
        IN  /\ eval.ret \in {"north", "south", "east", "west"}
            /\ eval.ret \in {"north", "south"} <=> dominant
            /\ eval.ret = "north" <=> (dominant /\ dlat > 0)
            /\ eval.ret = "south" <=> (dominant /\ dlat < 0)
            /\ eval.ret = "east" <=> (~dominant /\ dlng > 0)
            /\ eval.ret = "west" <=> (~dominant /\ dlng < 0)

\* C13, amended: as stated, but west is the label of every pair that is not
\* latitude-dominant and has dlng <= 0, which includes a pair of equal points.
C13_DirectionByDominantDelta ==
    eval.fn = "_get_direction" =>
        LET dlat == eval.args[2][1] - eval.args[1][1]
            dlng == eval.args[2][2] - eval.args[1][2]
            dominant == Abs(dlat) > Abs(dlng)
        IN  /\ eval.ret \in {"north", "south", "east", "west"}
            /\ eval.ret \in {"north", "south"} <=> dominant
            /\ eval.ret = "north" <=> (dominant /\ dlat > 0)
            /\ eval.ret = "south" <=> (dominant /\ dlat < 0)
            /\ eval.ret = "east" <=> (~dominant /\ dlng > 0)
            /\ eval.ret = "west" <=> (~dominant /\ dlng <= 0)

\* The direction from a point to itself has been asked for.
C13_Witness ==
    /\ eval.fn = "_get_direction"
    /\ eval.args[1] = eval.args[2]
    /\ eval.ret = "west"

\* C14: get_hex_for_location fails for every resolution outside 6..10 and gives
\* a cell of the requested resolution for every resolution in 6..10; a join
\* asked for with a resolution outside 6..10 ends with an error, is never
\* carried out, and leaves no cell and no Occupancy.
C14_ResolutionBand ==
    [][/\ eval'.fn = "get_hex_for_location" =>
            IF eval'.args[2] \in 6..10
            THEN eval'.raised = "-" /\ eval'.ret[1] = eval'.args[2]
            ELSE eval'.raised # "-"
       /\ \A p \in Procs :
            /\ op'[p].kind = "join" => op'[p].resolution \in 6..10
            /\ (result[p].status # "400" /\ result'[p].status = "400") =>
                    /\ hex_cells' = hex_cells
                    /\ user_hex_locations' = user_hex_locations
       /\ \A c \in DOMAIN hex_cells' : c[1] \in 6..10
       /\ \A r \in user_hex_locations' : r.h3_index[1] \in 6..10]_vars

\* C15: no join request with a coordinate outside the valid range gets past
\* the route to the service.
C15_InvalidCoordinateStopsAtBoundary ==
    \A p \in Procs : op[p].kind = "join" => ValidCoordinate(op[p].pt)

\* C20: find_clusters returns the empty list whenever min_samples is greater
\* than the number of locations, whatever eps is.
C20_TooFewLocationsNoClusters ==
    (eval.fn = "find_clusters" /\ eval.args[3] > Len(eval.args[1])) =>
        /\ eval.raised = "-"
        /\ eval.ret = << >>

\* find_clusters has been called with no location at all and an eps of zero.
C20_Witness ==
    /\ eval.fn = "find_clusters"
    /\ eval.args[1] = << >>
    /\ eval.args[2] = 0
    /\ eval.ret = << >>
    /\ eval.raised = "-"

\* C21: whenever find_clusters returns, no cluster has the id -1; every member
\* of a cluster is a core location (one with at least min_samples locations,
\* itself included, within eps) or within eps of one, which is what being
\* density-reachable from a core location comes to; a location that is
\* neither is in no cluster; and no location is in two clusters.
C21_ClustersOfDensityReachable ==
    (eval.fn = "find_clusters" /\ eval.raised = "-") =>
        LET X == eval.args[1]
            eps == eval.args[2]
            Near(i, j) == Abs(X[i] - X[j]) <= eps
            Core(i) == Cardinality({j \in DOMAIN X : Near(i, j)}) >= eval.args[3]
            Reached(j) == \E i \in DOMAIN X : Core(i) /\ Near(i, j)
            clusters == eval.ret
        IN  /\ \A a \in DOMAIN clusters :
                /\ clusters[a].cluster_id # 0 - 1
                /\ clusters[a].members \subseteq DOMAIN X
                /\ \A j \in clusters[a].members : Reached(j)
            /\ \A j \in DOMAIN X :
                ~Reached(j) => \A a \in DOMAIN clusters : j \notin clusters[a].members
            /\ \A a, b \in DOMAIN clusters :
                a # b => clusters[a].members \cap clusters[b].members = {}

\* find_clusters has returned two clusters and left a location out as noise,
\* and one member of the first cluster is within eps of a core location of
\* the second.
C21_Witness ==
    /\ eval.fn = "find_clusters"
    /\ eval.raised = "-"
    /\ Len(eval.ret) = 2
    /\ LET X == eval.args[1]
           eps == eval.args[2]
           Near(i, j) == Abs(X[i] - X[j]) <= eps
           Core(i) == Cardinality({j \in DOMAIN X : Near(i, j)}) >= eval.args[3]
       IN  /\ \E j \in eval.ret[1].members :
                \E i \in eval.ret[2].members : Core(i) /\ Near(i, j)
           /\ \E j \in DOMAIN X :
                j \notin eval.ret[1].members \cup eval.ret[2].members

\* C22: the map create_h3_heatmap returns has exactly the cells that hold at
\* least one of the locations as its keys, and gives each the number of its
\* locations divided by the greatest such number of any cell: every density is
\* above 0 and at most 1, and a densest cell has exactly 1.0; no location gives
\* the empty map and one location a map of one entry with density 1.0.
C22_HeatmapNormalisedByMax ==
    (eval.fn = "create_h3_heatmap" /\ eval.raised = "-") =>
        LET locations == eval.args[1]
            density == eval.ret
            cell(i) == get_hex_for_location(locations[i], eval.args[2])
            count(c) == Cardinality({i \in DOMAIN locations : cell(i) = c})
        IN  /\ DOMAIN density = {cell(i) : i \in DOMAIN locations}
            /\ \A c \in DOMAIN density :
                /\ density[c][1] = count(c)
                /\ \A d \in DOMAIN density : density[c][2] >= count(d)
                /\ \E d \in DOMAIN density : density[c][2] = count(d)
                /\ 0 < density[c][1]
                /\ density[c][1] <= density[c][2]
            /\ locations # << >> =>
                    \E c \in DOMAIN density : density[c][1] = density[c][2]
            /\ locations = << >> => density = << >>
            /\ Len(locations) = 1 =>
                    \E c \in DOMAIN density :
                        DOMAIN density = {c} /\ density[c][1] = density[c][2]

\* A heatmap has been made of locations of two cells, one of which holds
\* more of them than the other.
C22_Witness ==
    /\ eval.fn = "create_h3_heatmap"
    /\ eval.raised = "-"
    /\ \E c, d \in DOMAIN eval.ret :
            /\ eval.ret[c][1] = eval.ret[c][2]
            /\ eval.ret[d][1] < eval.ret[d][2]

\* C23: find_nearest_neighbors returns min(k, number of locations) entries,
\* each a location with its distance to the target and no location twice, in
\* non-decreasing order of distance; no location left out is nearer than one
\* returned; and among locations of equal distance the earlier of the input
\* comes first and is the one returned.  With k at or above the number of
\* locations every location is returned.
C23_NearestAreKSmallestInStableOrder ==
    eval.fn = "find_nearest_neighbors" =>
        LET target == eval.args[1]
            locations == eval.args[2]
            k == eval.args[3]
            found == eval.ret
            dist(i) == Abs(locations[i] - target)
            taken == {found[a][1] : a \in DOMAIN found}
        IN  /\ Len(found) = (IF k < Len(locations) THEN k ELSE Len(locations))
            /\ \A a \in DOMAIN found :
                /\ found[a][1] \in DOMAIN locations
                /\ found[a][2] = dist(found[a][1])
            /\ \A a, b \in DOMAIN found :
                a < b => /\ found[a][1] # found[b][1]
                         /\ found[a][2] <= found[b][2]
                         /\ found[a][2] = found[b][2] => found[a][1] < found[b][1]
            /\ \A i \in DOMAIN locations \ taken :
                \A j \in taken :
                    /\ dist(j) <= dist(i)
                    /\ dist(j) = dist(i) => j < i
            /\ k >= Len(locations) => taken = DOMAIN locations

\* Two of three locations have been asked for; two locations of one distance
\* were returned and a third of the same distance was left out.
C23_Witness ==
    /\ eval.fn = "find_nearest_neighbors"
    /\ Len(eval.args[2]) = 3
    /\ eval.args[3] = 2
    /\ Len(eval.ret) = 2
    /\ eval.ret[1][2] = eval.ret[2][2]
    /\ \A i \in DOMAIN eval.args[2] : Abs(eval.args[2][i] - eval.args[1]) = eval.ret[1][2]

\* C24: find_locations_in_polygon returns every location that lies on an edge
\* or a vertex of the polygon or in its interior, and no location outside it.
C24_BoundaryCountsAsInside ==
    eval.fn = "find_locations_in_polygon" =>
        LET locations == eval.args[1]
            polygon == eval.args[2]
            returned == {eval.ret[a] : a \in DOMAIN eval.ret}
        IN  \A i \in DOMAIN locations :
                i \in returned <=>
                    (Interior(locations[i], polygon) \/ Boundary(locations[i], polygon))

\* C25: calculate_spatial_statistics returns, for every list of locations, the
\* empty one and the one of a single location included, the count, the
\* coverage area, the density, the mean nearest-neighbor distance and the
\* distribution label; the mean is 0 for at most one location, the density is
\* 0 when the area of the hull is 0, and the label is "clustered" exactly when
\* the mean is below 500 metres and "dispersed" otherwise.
C25_StatisticsComplete ==
    eval.fn = "calculate_spatial_statistics" =>
        LET locations == eval.args[1]
            stats == eval.ret
        IN  /\ {"total_locations", "coverage_area_sqkm", "density_per_sqkm",
                 "mean_nearest_neighbor_distance", "spatial_distribution"}
                    \subseteq DOMAIN stats
            /\ stats.total_locations = Len(locations)
            /\ Len(locations) <= 1 => stats.mean_nearest_neighbor_distance = 0
            /\ stats.coverage_area_sqkm = 0 => stats.density_per_sqkm = 0
            /\ stats.spatial_distribution \in {"clustered", "dispersed"}
            /\ stats.spatial_distribution = "clustered" <=>
                    stats.mean_nearest_neighbor_distance < 500

\* C26: with joins and sweeps run one after the other from the empty store,
\* whenever no operation is in progress active_users of every cell is the
\* number of Occupancy rows the store holds for the cell.
C26_SerialCountIsRows ==
    Quiescent =>
        \A c \in DOMAIN hex_cells :
            hex_cells[c].active_users =
                Cardinality({r \in user_hex_locations : r.h3_index = c})

\* Two users have joined one cell and a sweep has ended after them.
C26_Witness ==
    /\ Quiescent
    /\ \E p \in Procs : result[p].status = "AttributeError"
    /\ \E c \in DOMAIN hex_cells :
            Cardinality({r \in user_hex_locations : r.h3_index = c}) = 2

\* C27: when a sweep has run concurrently with joins and every operation has
\* completed, active_users of every cell is the number of Occupancy rows that
\* remain for the cell.
C27_SweepAmongJoinsKeepsCounts ==
    (Quiescent /\ sweeps # << >>) =>
        \A c \in DOMAIN hex_cells :
            Cardinality({r \in user_hex_locations : r.h3_index = c}) =
                hex_cells[c].active_users

\* C28: in the window of a client's key, RateLimitMiddleware passes at most
\* requests_per_minute requests of the client on to the downstream handler,
\* also when requests of the client are in dispatch at the same time; and a
\* step of a request touches neither the key nor the count of another client.
C28_AtMostLimitForwardedPerClient ==
    [][/\ \A client_ip \in ClientIps : forwarded'[client_ip] <= requests_per_minute
       /\ \A r \in Requests :
            req'[r] # req[r] =>
                \A client_ip \in ClientIps \ {req'[r].client} :
                    /\ redis'[client_ip] = redis[client_ip]
                    /\ forwarded'[client_ip] = forwarded[client_ip]]_vars

\* C29: a rate-limit key that exists has an expiry, in every state.
C29_KeyAlwaysExpires ==
    \A client_ip \in ClientIps :
        redis[client_ip].count # None => redis[client_ip].expires

\* C30: dispatch passes a request to call_next at most once, whatever Redis
\* and the downstream handler raise; a request that has been answered other
\* than with 429 has been passed on exactly once.
C30_CallNextAtMostOnce ==
    \A r \in Requests :
        /\ req[r].calls <= 1
        /\ (req[r].pc = "done" /\ req[r].status # "429") => req[r].calls = 1

\* C16: get_or_create_hex_cell leaves the store as it is when the cell exists,
\* and otherwise completes with the cell in the store, also when another call
\* creates the same cell at the same time.
C16_EnsureCellAtomic ==
    [][\A p \in Procs :
        /\ (Leaves(p, "get_or_create") /\ local'[p].h3 \in DOMAIN hex_cells) =>
                /\ hex_cells' = hex_cells
                /\ pc'[p] = "lookup_user"
        /\ Leaves(p, "create_cell") =>
                /\ local[p].h3 \in DOMAIN hex_cells'
                /\ pc'[p] = "lookup_user"
                /\ \A c \in DOMAIN hex_cells : hex_cells'[c] = hex_cells[c]]_vars

\* C17: a cell that is in the store is in the store after every step.
C17_CellCatalogAppendOnly ==
    [][DOMAIN hex_cells \subseteq DOMAIN hex_cells']_vars

\* A cell with an occupant is in the store after a sweep and a neighbor query
\* have run.
C17_Witness ==
    /\ \E c \in DOMAIN hex_cells : CountIn(c) > 0
    /\ \E p \in Procs : result[p].status = "AttributeError"
    /\ \E p \in Procs : result[p].status = "ok" /\ result[p].active_users = None

\* C18: a step of a join into a cell removes no Occupancy of any other cell and
\* changes active_users of no other cell; whatever the step, an Occupancy
\* leaves the store only with the step of a sweep.
C18_JoinLeavesOtherCellsAlone ==
    [][\A p \in Procs :
        /\ (op[p].kind = "join" /\ pc'[p] # pc[p]) =>
                LET c2 == get_hex_for_location(op[p].pt, op[p].resolution) IN
                /\ \A r \in user_hex_locations :
                        r.h3_index # c2 => r \in user_hex_locations'
                /\ \A c1 \in DOMAIN hex_cells :
                        c1 # c2 => /\ c1 \in DOMAIN hex_cells'
                                   /\ hex_cells'[c1] = hex_cells[c1]
        /\ (op[p].kind # "cleanup" /\ pc'[p] # pc[p]) =>
                \A r \in user_hex_locations :
                    \E x \in user_hex_locations' :
                        x.user_id = r.user_id /\ x.h3_index = r.h3_index]_vars

\* A user is an occupant of two cells, and has just joined one of them again.
C18_Witness ==
    \E p \in Procs, r1, r2 \in user_hex_locations :
        /\ r1.user_id = r2.user_id
        /\ r1.h3_index # r2.h3_index
        /\ pc[p] = "respond"
        /\ local[p].found
        /\ op[p].user_id = r1.user_id

\* C19: a failure of the store ends the join or the sweep with the error, with
\* no further attempt, and leaves the Occupancies and every active_users as
\* they were; and whatever the step, the number of Occupancies of a cell
\* changes only together with, and as much as, the cell's active_users.
C19_StoreFailureLeavesNoPartialUpdate ==
    [][/\ \A p \in Procs :
            (~Idle(p) /\ result'[p].status = "OperationalError") =>
                /\ pc'[p] = "idle"
                /\ op'[p] = NoOp
                /\ user_hex_locations' = user_hex_locations
                /\ hex_cells' = hex_cells
       /\ \A c \in DOMAIN hex_cells' :
            Cardinality({r \in user_hex_locations' : r.h3_index = c}) - CountIn(c) =
                hex_cells'[c].active_users -
                    (IF c \in DOMAIN hex_cells THEN hex_cells[c].active_users ELSE 0)]_vars

\* The store failed under a join that had created its cell: the cell is
\* there, with no Occupancy and no active user.
C19_Witness ==
    \E p \in Procs, c \in DOMAIN hex_cells :
        /\ result[p].status = "OperationalError"
        /\ hex_cells[c].active_users = 0
        /\ CountIn(c) = 0

====
